---- MODULE Spec2Model ----
(***************************************************************************)
(* Model of the two ImageJ Jython scripts of the repository:              *)
(*   deepTime_buddy.py  (TimeCompactor: calibration, frame range          *)
(*                       selection and Z-projection of a time series)     *)
(*   dialog_FRAP.py     (FRAP analysis set-up: dialog, calibration,       *)
(*                       channel extraction)                              *)
(* Both scripts are straight-line module-level code; each statement group *)
(* is one action and pc is the position in the script.  An image is a     *)
(* record holding its stack (a sequence of slices, each slice the pair    *)
(* <<channel, frame>> of the plane it holds, in ImageJ's order: channel   *)
(* fastest), its calibration, its dimensions and its title.  Python's     *)
(* None is the empty sequence, a present value x is <<x>>.                *)
(* The compaction script is modelled on single-channel time series, where *)
(* the stack index of a slice is its frame number.                        *)
(***************************************************************************)
EXTENDS Integers, Sequences, FiniteSets, TLC

\* ---------------------------------------------------------------- bounds
MaxFrames == 11
MaxFRAPFrames == 3
MaxChannels == 3
MaxWindow == 3

\* ------------------------------------------------------ program constants
\* zp.setStartSlice(1)
StartSliceConst == 1
\* zp.setStopSlice(10)
StopSliceConst == 10
\* default of "Number of frames to project in to one:"
DefaultWindow == 10
\* default of the slider "Number of frames to analyze:"
DefaultMaxFrame == 30
\* default of "Manual FRAP frame:"
DefaultManualFrame == 0

VARIABLES script, pc, win, origCal, series, imp, dup, zp, gd,
          frame_interval, time_unit, start_frame, stop_frame,
          total_no_frames_to_project, no_frames_per_integral, zp1,
          stack_track, ret, current_imp, max_frame, maual_FRAP_frame,
          manualFRAPflag, err, shown, logged, printed, channelno,
          extracted

vars == <<script, pc, win, origCal, series, imp, dup, zp, gd,
          frame_interval, time_unit, start_frame, stop_frame,
          total_no_frames_to_project, no_frames_per_integral, zp1,
          stack_track, ret, current_imp, max_frame, maual_FRAP_frame,
          manualFRAPflag, err, shown, logged, printed, channelno, extracted>>

\* ------------------------------------------------------------ the images
TimeUnits == {"sec", "min"}

\* Frame intervals, in hundredths of the time unit.
Intervals == {0, 250}

\* The slices of a stack of C channels and F frames, one z-plane.
MakeStack(C, F) ==
  [i \in 1..(C * F) |-> <<((i - 1) % C) + 1, ((i - 1) \div C) + 1>>]

MakeImage(C, F, interval, unit) ==
  [stack |-> MakeStack(C, F), nChannels |-> C, nFrames |-> F,
   cal |-> [frameInterval |-> interval, timeUnit |-> unit],
   title |-> <<"stack">>]

getStackSize(image) == Len(image.stack)

\* Intensity-over-time series of the bleached region: a rising ramp, or a
\* drop at frame k followed by recovery.
Ramp(F) == [t \in 1..F |-> t]

BleachAt(F, k) == [t \in 1..F |-> IF t < k THEN F + 1 ELSE t - k]

SeriesSet(F) == {Ramp(F)} \cup {BleachAt(F, k) : k \in 2..F}

\* ------------------------------------------------------------ references
\* imp, zp.imp and current_imp are references to image objects: "win" is
\* the image of the active window, "dup" the image Duplicator made,
\* "split" a channel image made by ChannelSplitter (held in ret).
Deref(ref) == IF ref = "win" THEN win ELSE dup[1]

\* ------------------------------------------------------- GenericDialog
\* A shown dialog holds the values of its fields in the order the fields
\* were added, one list per kind of field (numeric fields and sliders
\* share one list), and a read position per list.
Dialog(numbers, strings, choices, booleans) ==
  [numbers |-> numbers, strings |-> strings, choices |-> choices,
   booleans |-> booleans, nfIndex |-> 0, sfIndex |-> 0, choiceIndex |-> 0,
   cbIndex |-> 0]

getNextNumber(d) == d.numbers[d.nfIndex + 1]

afterNextNumber(d) == [d EXCEPT !.nfIndex = @ + 1]

getNextString(d) == d.strings[d.sfIndex + 1]

afterNextString(d) == [d EXCEPT !.sfIndex = @ + 1]

getNextChoice(d) == d.choices[d.choiceIndex + 1]

afterNextChoice(d) == [d EXCEPT !.choiceIndex = @ + 1]

getNextBoolean(d) == d.booleans[d.cbIndex + 1]

afterNextBoolean(d) == [d EXCEPT !.cbIndex = @ + 1]

\* ------------------------------------------------- deepTime_buddy.py
methods_as_strings ==
  <<"Average Intensity", "Max Intensity", "Min Intensity", "Sum Slices",
    "Standard Deviation", "Median">>

\* zp.AVG_METHOD .. zp.MEDIAN_METHOD
methods_as_const == <<0, 1, 2, 3, 4, 5>>

\* dict(zip(methods_as_strings, methods_as_const))
medthod_dict ==
  [s \in {methods_as_strings[i] : i \in 1..Len(methods_as_strings)} |->
     methods_as_const[CHOOSE i \in 1..Len(methods_as_strings) :
                         methods_as_strings[i] = s]]

\* ZProjector(imp): the projector keeps a reference to the image it was
\* made from and starts with the whole stack selected.
ZProjector(ref) ==
  [imp |-> ref, method |-> methods_as_const[2], startSlice |-> 1,
   stopSlice |-> getStackSize(Deref(ref))]

\* ZProjector.setStartSlice / setStopSlice ignore a slice outside the stack.
setStartSlice(z, slice) ==
  IF slice < 1 \/ slice > getStackSize(Deref(z.imp)) THEN z
  ELSE [z EXCEPT !.startSlice = slice]

setStopSlice(z, slice) ==
  IF slice < 1 \/ slice > getStackSize(Deref(z.imp)) THEN z
  ELSE [z EXCEPT !.stopSlice = slice]

\* doProjection / getProjection: one image, the reduction under z.method of
\* the slices startSlice..stopSlice of the projector's image.
doProjection(z) ==
  [method |-> z.method,
   frames |-> SubSeq(Deref(z.imp).stack, z.startSlice, z.stopSlice),
   cal |-> Deref(z.imp).cal]

\* Variant of setCalibration that writes the interval and leaves the unit.
CalibrationKeepsUnit(cal, interval, unit) ==
  [cal EXCEPT !.frameInterval = interval]

\* cal.frameInterval = frame_interval; cal.setTimeUnit(time_unit);
\* imp.setCalibration(cal)
setCalibration(cal, interval, unit) ==
  [frameInterval |-> interval, timeUnit |-> unit]

\* Variant of RangeInvalid that lets start = stop + 1 through.
RangeInvalidOffByOne(start, stop) == start > stop + 1

\* start_frame > stop_frame
RangeInvalid(start, stop) == start > stop

\* (start_frame != 1) or (stop_frame != imp.getNFrames())
NeedsDuplicate(image, start, stop) == (start # 1) \/ (stop # image.nFrames)

\* Variant of Duplicate that stops one slice early.
DuplicateExclusiveStop(image, start, stop) ==
  [stack |-> SubSeq(image.stack, start, stop - 1), nChannels |-> 1,
   nFrames |-> stop - start, cal |-> image.cal,
   title |-> <<"DUP_">> \o image.title]

\* Duplicator().run(imp, start_frame, stop_frame): a new image holding the
\* slices start..stop of the stack, with the calibration of the original.
Duplicate(image, start, stop) ==
  [stack |-> SubSeq(image.stack, start, stop), nChannels |-> 1,
   nFrames |-> stop - start + 1, cal |-> image.cal,
   title |-> <<"DUP_">> \o image.title]

\* lines 39-41: imp = WindowManager.getCurrentImage(); cal; zp = ZProjector(imp)
GetCurrentImage ==
  /\ script = "deepTime" /\ pc = "start"
  /\ imp' = "win"
  /\ zp' = <<ZProjector("win")>>
  /\ pc' = "dialog"
  /\ UNCHANGED <<script, win, origCal, series, dup, gd, frame_interval,
                 time_unit, start_frame, stop_frame,
                 total_no_frames_to_project, no_frames_per_integral, zp1,
                 stack_track, ret, current_imp, max_frame, maual_FRAP_frame,
                 manualFRAPflag, err, shown, logged, printed, channelno, extracted>>

\* lines 11-36 and 49: gd = setupDialog(imp).  The user cancels, or sets
\* the fields; the sliders range over 1..nFrames.
setupDialog ==
  /\ script = "deepTime" /\ pc = "dialog"
  /\ \/ /\ gd' = << >>
        /\ logged' = Append(logged, "User canceled dialog!")
     \/ /\ \E interval \in Intervals, unit \in TimeUnits,
              start \in 1..Deref(imp).nFrames, stop \in 1..Deref(imp).nFrames,
              window \in (1..MaxWindow) \cup {DefaultWindow},
              m \in 1..Len(methods_as_strings) :
            gd' = <<Dialog(<<interval, start, stop, window>>, <<unit>>,
                           <<methods_as_strings[m]>>, << >>)>>
        /\ UNCHANGED logged
  /\ pc' = "readCal"
  /\ UNCHANGED <<script, win, origCal, series, imp, dup, zp, frame_interval,
                 time_unit, start_frame, stop_frame,
                 total_no_frames_to_project, no_frames_per_integral, zp1,
                 stack_track, ret, current_imp, max_frame, maual_FRAP_frame,
                 manualFRAPflag, err, shown, printed, channelno, extracted>>

\* lines 50-51: frame_interval = gd.getNextNumber(); time_unit =
\* gd.getNextString().  After a cancel gd is None and the attribute
\* lookup raises AttributeError.
ReadCalibration ==
  /\ script = "deepTime" /\ pc = "readCal"
  /\ IF gd = << >>
     THEN /\ err' = "AttributeError"
          /\ pc' = "crashed"
          /\ UNCHANGED <<gd, frame_interval, time_unit>>
     ELSE /\ frame_interval' = getNextNumber(gd[1])
          /\ time_unit' = getNextString(gd[1])
          /\ gd' = <<afterNextString(afterNextNumber(gd[1]))>>
          /\ pc' = "setCal"
          /\ UNCHANGED err
  /\ UNCHANGED <<script, win, origCal, series, imp, dup, zp, start_frame,
                 stop_frame, total_no_frames_to_project,
                 no_frames_per_integral, zp1, stack_track, ret, current_imp,
                 max_frame, maual_FRAP_frame, manualFRAPflag, shown, logged,
                 printed, channelno, extracted>>

\* lines 54-56: the calibration object of the window's image is written.
SetCalibration ==
  /\ script = "deepTime" /\ pc = "setCal"
  /\ win' = [win EXCEPT !.cal = setCalibration(@, frame_interval, time_unit)]
  /\ pc' = "readRange"
  /\ UNCHANGED <<script, origCal, series, imp, dup, zp, gd, frame_interval,
                 time_unit, start_frame, stop_frame,
                 total_no_frames_to_project, no_frames_per_integral, zp1,
                 stack_track, ret, current_imp, max_frame, maual_FRAP_frame,
                 manualFRAPflag, err, shown, logged, printed, channelno, extracted>>

\* lines 59-64: the bounds are read and checked.  RuntimeException is not
\* imported by the script: the raise ends the run with that exception where
\* the interpreter pre-imports it and with NameError where it does not.
ReadRange ==
  /\ script = "deepTime" /\ pc = "readRange"
  /\ start_frame' = getNextNumber(gd[1])
  /\ stop_frame' = getNextNumber(afterNextNumber(gd[1]))
  /\ gd' = <<afterNextNumber(afterNextNumber(gd[1]))>>
  /\ IF RangeInvalid(start_frame', stop_frame')
     THEN /\ shown' = Append(shown, "Start frame > Stop frame!")
          /\ err' \in {"RuntimeException", "NameError"}
          /\ pc' = "failed"
     ELSE /\ pc' = "select"
          /\ UNCHANGED <<shown, err>>
  /\ UNCHANGED <<script, win, origCal, series, imp, dup, zp, frame_interval,
                 time_unit, total_no_frames_to_project,
                 no_frames_per_integral, zp1, stack_track, ret, current_imp,
                 max_frame, maual_FRAP_frame, manualFRAPflag, logged,
                 printed, channelno, extracted>>

\* lines 66-67: a proper subrange is duplicated and imp is rebound to the
\* duplicate; the full range keeps imp as it is.
SelectRange ==
  /\ script = "deepTime" /\ pc = "select"
  /\ IF NeedsDuplicate(Deref(imp), start_frame, stop_frame)
     THEN /\ dup' = <<Duplicate(Deref(imp), start_frame, stop_frame)>>
          /\ imp' = "dup"
     ELSE UNCHANGED <<dup, imp>>
  /\ pc' = "project"
  /\ UNCHANGED <<script, win, origCal, series, zp, gd, frame_interval,
                 time_unit, start_frame, stop_frame,
                 total_no_frames_to_project, no_frames_per_integral, zp1,
                 stack_track, ret, current_imp, max_frame, maual_FRAP_frame,
                 manualFRAPflag, err, shown, logged, printed, channelno, extracted>>

\* lines 71-79: one projection, of the slices 1..10 of the projector's image.
Project ==
  /\ script = "deepTime" /\ pc = "project"
  /\ total_no_frames_to_project' = Deref(imp).nFrames
  /\ no_frames_per_integral' = getNextNumber(gd[1])
  /\ gd' = <<afterNextChoice(afterNextNumber(gd[1]))>>
  /\ zp' = <<setStopSlice(
               setStartSlice([zp[1] EXCEPT !.method =
                                medthod_dict[getNextChoice(gd[1])]],
                             StartSliceConst),
               StopSliceConst)>>
  /\ zp1' = <<doProjection(zp'[1])>>
  /\ pc' = "tail"
  /\ UNCHANGED <<script, win, origCal, series, imp, dup, frame_interval,
                 time_unit, start_frame, stop_frame, stack_track, ret,
                 current_imp, max_frame, maual_FRAP_frame, manualFRAPflag,
                 err, shown, logged, printed, channelno, extracted>>

\* lines 84-88: stack, stack_track = imp.createEmptyStack(), title,
\* n_channels; the script ends here.
EndOfScript ==
  /\ script = "deepTime" /\ pc = "tail"
  /\ stack_track' = << >>
  /\ pc' = "done"
  /\ UNCHANGED <<script, win, origCal, series, imp, dup, zp, gd,
                 frame_interval, time_unit, start_frame, stop_frame,
                 total_no_frames_to_project, no_frames_per_integral, zp1,
                 ret, current_imp, max_frame, maual_FRAP_frame,
                 manualFRAPflag, err, shown, logged, printed, channelno, extracted>>

\* ----------------------------------------------------- dialog_FRAP.py
\* str(ch) and int(s) on the channel numbers of the choice list.
DigitStr == <<"1", "2", "3", "4", "5", "6", "7", "8", "9">>

str(n) == DigitStr[n]

int(s) == CHOOSE n \in 1..Len(DigitStr) : DigitStr[n] = s

\* channels = [str(ch) for ch in range(1, imp.getNChannels()+1)]
channels(image) == [ch \in 1..image.nChannels |-> str(ch)]

\* ChannelSplitter.split(imp): one single-channel image per channel, each
\* holding that channel's slices in temporal order.
ChannelSplit(image) ==
  [c \in 1..image.nChannels |->
     [stack |-> [t \in 1..image.nFrames |->
                   image.stack[(t - 1) * image.nChannels + c]],
      nChannels |-> 1, nFrames |-> image.nFrames, cal |-> image.cal,
      title |-> <<"C", str(c), "-">> \o image.title]]

\* Python's a[i] on a sequence of n items: -n <= i < n, a negative index
\* counts from the end; anything else raises IndexError.
PyIndexValid(n, i) == (0 - n) <= i /\ i < n

PyIndexPos(n, i) == IF i < 0 THEN n + i + 1 ELSE i + 1

\* channelSelector(imp, channelno): imps[(channelno-1)]; << >> stands for
\* the IndexError.
channelSelector(image, chno) ==
  LET imps == ChannelSplit(image)
  IN IF PyIndexValid(Len(imps), chno - 1)
     THEN <<imps[PyIndexPos(Len(imps), chno - 1)]>>
     ELSE << >>

\* line 70: current_imp = WindowManager.getCurrentImage()
FRAPGetCurrentImage ==
  /\ script = "FRAP" /\ pc = "start"
  /\ current_imp' = "win"
  /\ pc' = "dialog"
  /\ UNCHANGED <<script, win, origCal, series, imp, dup, zp, gd,
                 frame_interval, time_unit, start_frame, stop_frame,
                 total_no_frames_to_project, no_frames_per_integral, zp1,
                 stack_track, ret, max_frame, maual_FRAP_frame,
                 manualFRAPflag, err, shown, logged, printed, channelno,
                 extracted>>

\* lines 19-41: the dialog of FRAPsetup.  A cancel logs and returns None.
FRAPsetupDialog ==
  /\ script = "FRAP" /\ pc = "dialog"
  /\ \/ /\ gd' = << >>
        /\ logged' = Append(logged, "User canceled dialog!")
        /\ pc' = "unpack"
     \/ /\ \E interval \in Intervals,
              ch \in 1..Len(channels(win)),
              frames \in (1..win.nFrames) \cup {DefaultMaxFrame},
              manual \in ((0 - 1)..(win.nFrames + 1)) \cup {DefaultManualFrame},
              auto \in BOOLEAN :
            gd' = <<Dialog(<<interval, frames, manual>>, << >>,
                           <<channels(win)[ch]>>, <<auto>>)>>
        /\ pc' = "options"
        /\ UNCHANGED logged
  /\ UNCHANGED <<script, win, origCal, series, imp, dup, zp, frame_interval,
                 time_unit, start_frame, stop_frame,
                 total_no_frames_to_project, no_frames_per_integral, zp1,
                 stack_track, ret, current_imp, max_frame, maual_FRAP_frame,
                 manualFRAPflag, err, shown, printed, channelno, extracted>>

\* lines 44-59: the options are read, the calibration of the window's
\* image is written, the channel is extracted and the tuple returned.
FRAPsetupOptions ==
  /\ script = "FRAP" /\ pc = "options"
  /\ LET d0 == gd[1]
         d1 == afterNextNumber(d0)
         d2 == afterNextChoice(d1)
         d3 == afterNextNumber(d2)
         d4 == afterNextNumber(d3)
     IN /\ frame_interval' = getNextNumber(d0)
        /\ channelno' = int(getNextChoice(d1))
        /\ gd' = <<afterNextBoolean(d4)>>
        /\ win' = [win EXCEPT !.cal.frameInterval = frame_interval']
        /\ extracted' = channelSelector(win', channelno')
        /\ IF extracted' = << >>
           THEN /\ err' = "IndexError"
                /\ pc' = "crashed"
                /\ UNCHANGED ret
           ELSE /\ ret' = <<[max_frame |-> getNextNumber(d2),
                             manual_FRAP_frame |-> getNextNumber(d3),
                             autoFRAPflag |-> getNextBoolean(d4)]>>
                /\ pc' = "unpack"
                /\ UNCHANGED err
  /\ UNCHANGED <<script, origCal, series, imp, dup, zp, time_unit,
                 start_frame, stop_frame, total_no_frames_to_project,
                 no_frames_per_integral, zp1, stack_track, current_imp,
                 max_frame, maual_FRAP_frame, manualFRAPflag, shown, logged,
                 printed>>

\* line 71: the returned tuple is unpacked; None cannot be unpacked and
\* raises TypeError.
FRAPUnpack ==
  /\ script = "FRAP" /\ pc = "unpack"
  /\ IF ret = << >>
     THEN /\ err' = "TypeError"
          /\ pc' = "crashed"
          /\ UNCHANGED <<current_imp, max_frame, maual_FRAP_frame,
                         manualFRAPflag>>
     ELSE /\ current_imp' = "extracted"
          /\ max_frame' = ret[1].max_frame
          /\ maual_FRAP_frame' = ret[1].manual_FRAP_frame
          /\ manualFRAPflag' = ret[1].autoFRAPflag
          /\ pc' = "print"
          /\ UNCHANGED err
  /\ UNCHANGED <<script, win, origCal, series, imp, dup, zp, gd,
                 frame_interval, time_unit, start_frame, stop_frame,
                 total_no_frames_to_project, no_frames_per_integral, zp1,
                 stack_track, ret, shown, logged, printed, channelno,
                 extracted>>

\* line 72: print current_imp, max_frame, maual_FRAP_frame, manualFRAPflag
FRAPPrint ==
  /\ script = "FRAP" /\ pc = "print"
  /\ printed' = Append(printed, <<max_frame, maual_FRAP_frame>>)
  /\ pc' = "done"
  /\ UNCHANGED <<script, win, origCal, series, imp, dup, zp, gd,
                 frame_interval, time_unit, start_frame, stop_frame,
                 total_no_frames_to_project, no_frames_per_integral, zp1,
                 stack_track, ret, current_imp, max_frame, maual_FRAP_frame,
                 manualFRAPflag, err, shown, logged, channelno, extracted>>

\* ---------------------------------------------------- the specification
\* The state before the first statement of a script: an image is open in
\* the active window and no variable of the script is bound yet.
Unbound ==
  /\ pc = "start"
  /\ imp = "" /\ dup = << >> /\ zp = << >> /\ gd = << >>
  /\ frame_interval = 0 /\ time_unit = ""
  /\ start_frame = 0 /\ stop_frame = 0
  /\ total_no_frames_to_project = 0 /\ no_frames_per_integral = 0
  /\ zp1 = << >> /\ stack_track = << >> /\ ret = << >>
  /\ current_imp = "" /\ max_frame = 0 /\ maual_FRAP_frame = 0
  /\ manualFRAPflag = FALSE
  /\ err = "" /\ shown = << >> /\ logged = << >> /\ printed = << >>
  /\ extracted = << >>

Init ==
  /\ script \in {"deepTime", "FRAP"}
  /\ \E C \in 1..MaxChannels,
        F \in 1..(IF script = "deepTime" THEN MaxFrames ELSE MaxFRAPFrames),
        interval \in Intervals :
       /\ script = "deepTime" => C = 1
       /\ win = MakeImage(C, F, interval, "sec")
       /\ series \in (IF script = "FRAP" THEN SeriesSet(F) ELSE {<< >>})
  /\ origCal = win.cal
  /\ channelno = 0
  /\ Unbound

Next ==
  \/ GetCurrentImage
  \/ setupDialog
  \/ ReadCalibration
  \/ SetCalibration
  \/ ReadRange
  \/ SelectRange
  \/ Project
  \/ EndOfScript
  \/ FRAPGetCurrentImage
  \/ FRAPsetupDialog
  \/ FRAPsetupOptions
  \/ FRAPUnpack
  \/ FRAPPrint

Spec == Init /\ [][Next]_vars

\* channelSelector as a function of its two arguments: any image, any
\* integer channel number.
InitSelector ==
  /\ script = "channelSelector"
  /\ \E C \in 1..MaxChannels, F \in 1..MaxFRAPFrames,
        interval \in Intervals :
       /\ win = MakeImage(C, F, interval, "sec")
       /\ series \in SeriesSet(F)
  /\ origCal = win.cal
  /\ channelno \in (0 - (MaxChannels + 1))..(MaxChannels + 1)
  /\ Unbound

CallChannelSelector ==
  /\ script = "channelSelector" /\ pc = "start"
  /\ extracted' = channelSelector(win, channelno)
  /\ IF extracted' = << >>
     THEN err' = "IndexError" /\ pc' = "crashed"
     ELSE err' = err /\ pc' = "done"
  /\ UNCHANGED <<script, win, origCal, series, imp, dup, zp, gd,
                 frame_interval, time_unit, start_frame, stop_frame,
                 total_no_frames_to_project, no_frames_per_integral, zp1,
                 stack_track, ret, current_imp, max_frame, maual_FRAP_frame,
                 manualFRAPflag, shown, logged, printed, channelno>>

NextSelector == CallChannelSelector

SpecSelector == InitSelector /\ [][NextSelector]_vars

\* ------------------------------------------------------------ properties
CeilDiv(a, b) == (a + b - 1) \div b

Min(a, b) == IF a < b THEN a ELSE b

\* The sequence handed to compaction, its length and the window size.
Selected == Deref(imp).stack

\* The values the user gave in the TimeCompactor dialog.
GivenStart == gd[1].numbers[2]

GivenStop == gd[1].numbers[3]

GivenCal == [frameInterval |-> gd[1].numbers[1], timeUnit |-> gd[1].strings[1]]

BoundsRead == script = "deepTime" /\ gd # << >> /\ gd[1].nfIndex >= 3

\* C1: a finished compaction run has produced ceil(L / windowSize)
\* projected frames, L the length of the selected sequence.
C1_OutputLength ==
  (script = "deepTime" /\ pc = "done") =>
    Len(zp1) = CeilDiv(Len(Selected), no_frames_per_integral)

\* C2: the i-th frame of a finished compaction run is the projection of
\* exactly the selected frames (i-1)*windowSize+1 .. min(i*windowSize, L),
\* for every window i in 1..ceil(L / windowSize), the last shorter one too.
C2_WindowExact ==
  (script = "deepTime" /\ pc = "done") =>
    \A i \in 1..CeilDiv(Len(Selected), no_frames_per_integral) :
      /\ i <= Len(zp1)
      /\ zp1[i].frames =
           SubSeq(Selected, (i - 1) * no_frames_per_integral + 1,
                  Min(i * no_frames_per_integral, Len(Selected)))

\* C3: once bounds with start > stop have been read the run has failed:
\* the message is shown, an exception ended the script, nothing was
\* duplicated or projected, imp is still the window's image, and the
\* bounds are the ones given, neither clamped nor swapped.
C3_InvalidRangeAborts ==
  (BoundsRead /\ GivenStart > GivenStop) =>
    /\ pc = "failed"
    /\ err \in {"RuntimeException", "NameError"}
    /\ shown = <<"Start frame > Stop frame!">>
    /\ dup = << >> /\ imp = "win" /\ zp1 = << >> /\ stack_track = << >>
    /\ start_frame = GivenStart /\ stop_frame = GivenStop

C3_Witness ==
  /\ script = "deepTime" /\ pc = "failed"
  /\ start_frame = 3 /\ stop_frame = 2

C5_CancelIsNormalExit ==
  (logged # << >>) =>
    /\ win.cal = origCal /\ dup = << >> /\ zp1 = << >> /\ extracted = << >>
    /\ err = "" /\ pc # "crashed"

\* C6: channelSelector returns the sub-stack of the requested channel when
\* 1 <= channelno <= nChannels and fails for every other channel number.
C6_ExtractChecksChannel ==
  (script = "channelSelector" /\ pc # "start") =>
    IF 1 <= channelno /\ channelno <= win.nChannels
    THEN /\ extracted # << >>
         /\ Len(extracted[1].stack) = win.nFrames
         /\ \A t \in 1..win.nFrames :
              extracted[1].stack[t] = <<channelno, t>>
    ELSE extracted = << >> /\ err # ""

\* C7: a FRAP run in manual mode (checkbox unchecked) that delivers its
\* result delivers the manual index given, flagged as not detected, and
\* only for an index within 1..length(series); any other index fails.
C7_ManualIndexChecked ==
  (script = "FRAP" /\ pc \in {"print", "done"}
     /\ gd[1].booleans[1] = FALSE) =>
    /\ maual_FRAP_frame = gd[1].numbers[3]
    /\ manualFRAPflag = FALSE
    /\ 1 <= maual_FRAP_frame /\ maual_FRAP_frame <= Len(series)

\* The largest single-step decrease of a series and the earliest frame
\* showing it.
Drop(s, t) == s[t - 1] - s[t]

HasDrop(s) == \E t \in 2..Len(s) : Drop(s, t) > 0

SteepestDrop(s) ==
  CHOOSE t \in 2..Len(s) :
    /\ \A u \in 2..Len(s) : Drop(s, u) <= Drop(s, t)
    /\ \A u \in 2..(t - 1) : Drop(s, u) < Drop(s, t)

\* C8: a FRAP run in automatic mode delivers a result only when the series
\* has a decrease, and then the frame of the steepest decrease (the
\* earliest on ties); on a series without a decrease it fails.
C8_AutoDetects ==
  (script = "FRAP" /\ pc \in {"print", "done"}
     /\ gd[1].booleans[1] = TRUE) =>
    /\ HasDrop(series)
    /\ maual_FRAP_frame = SteepestDrop(series)

C10_ProjectsSelectedRange ==
  (script = "deepTime" /\ zp1 # << >>
     /\ (start_frame # 1 \/ stop_frame # win.nFrames)) =>
    \A i \in 1..Len(zp1[1].frames) :
      /\ start_frame <= zp1[1].frames[i][2]
      /\ zp1[1].frames[i][2] <= stop_frame

====
